---- MODULE Spec2Model ----
(***************************************************************************)
(* Recursive descent calculator of Calculator/main.cpp.                    *)
(*                                                                         *)
(* An expression is a sequence of one-character strings; the terminating   *)
(* NUL of the C string is the position Len(s) + 1.  The three mutually     *)
(* recursive functions tokenizeExpression, tokenizeMulDiv and              *)
(* tokenizeNumbers are run on an explicit call stack: one action is the    *)
(* code of one function from a call or return point to its next call,      *)
(* return or failed assert.  A failed assert aborts the process.           *)
(*                                                                         *)
(* Values are exact rationals num/den: the rounding of float and double    *)
(* arithmetic is not modelled.                                             *)
(***************************************************************************)
EXTENDS Integers, Sequences, FiniteSets, TLC

VARIABLES kExpressions, i, eq, countParenthesis, stack, ret, results, status, err

vars == <<kExpressions, i, eq, countParenthesis, stack, ret, results, status, err>>

----------------------------------------------------------------------------
(* Bounds of the checked inputs.                                           *)

\* longest expression drawn freely from Alphabet
MaxLen == 4
\* most binary operators in an operator chain over LiteralSet
MaxOps == 2
\* longest freely drawn expression that is also evaluated in parentheses
MaxBase == 3

----------------------------------------------------------------------------
(* Exact arithmetic on the values the functions return.                    *)

Abs(n) == IF n < 0 THEN -n ELSE n

RECURSIVE GCD(_, _)
GCD(a, b) == IF b = 0 THEN a ELSE GCD(b, a % b)

Norm(n, d) ==
    LET g == GCD(Abs(n), Abs(d))
    IN  IF g = 0 THEN [num |-> 0, den |-> 0]
        ELSE IF d < 0 THEN [num |-> (-n) \div g, den |-> (-d) \div g]
        ELSE [num |-> n \div g, den |-> d \div g]

Whole(n) == [num |-> n, den |-> 1]
Zero == Whole(0)

Negate(a) == [num |-> -a.num, den |-> a.den]
Add(a, b) ==
    LET g == GCD(a.den, b.den)
    IN  IF g = 0 THEN [num |-> 0, den |-> 0]
        ELSE Norm(a.num * (b.den \div g) + b.num * (a.den \div g),
                  (a.den \div g) * b.den)
Sub(a, b) == Add(a, Negate(b))
Mul(a, b) == Norm(a.num * b.num, a.den * b.den)
\* x / 0 is only computed when the assert of line 273 is compiled out: the
\* den = 0 value stands for the infinities and NaN of IEEE division.
Div(a, b) == Norm(a.num * b.den, a.den * b.num)

----------------------------------------------------------------------------
(* Scanner.                                                                *)

NUL == ""

DigitChars == <<"0", "1", "2", "3", "4", "5", "6", "7", "8", "9">>

isDigit(c) == \E k \in 1..10 : DigitChars[k] = c

toDigit(c) == (CHOOSE k \in 1..10 : DigitChars[k] = c) - 1

isOperator(c) == c \in {"+", "-", "/", "*"}

\* *eq for the pointer eq = p into the string s
CharAt(s, p) == IF p >= 1 /\ p <= Len(s) THEN s[p] ELSE NUL

\* while (*eq == ' ') eq++;
RECURSIVE SkipSpaces(_, _)
SkipSpaces(s, p) == IF CharAt(s, p) = " " THEN SkipSpaces(s, p + 1) ELSE p

\* The while loop of makeFloat from position p with the locals as given.
RECURSIVE ScanNumber(_, _, _, _, _, _)
ScanNumber(s, p, beforeDecimal, afterDecimal, divisor, isFraction) ==
    LET c == CharAt(s, p)
        here == [beforeDecimal |-> beforeDecimal, afterDecimal |-> afterDecimal,
                 divisor |-> divisor, end |-> p]
    IN  IF isDigit(c)
        THEN IF isFraction
             THEN ScanNumber(s, p + 1, beforeDecimal,
                             afterDecimal * 10 + toDigit(c), divisor * 10, TRUE)
             ELSE ScanNumber(s, p + 1, beforeDecimal * 10 + toDigit(c),
                             afterDecimal, divisor, FALSE)
        ELSE IF c = "."
        THEN IF isFraction
             THEN here
             ELSE ScanNumber(s, p + 1, beforeDecimal, afterDecimal, divisor, TRUE)
        ELSE here

\* makeFloat(eq, end): the value returned and the position left in end.
makeFloat(s, p) ==
    LET neg  == CharAt(s, p) = "-"
        scan == ScanNumber(s, IF neg THEN p + 1 ELSE p, 0, 0, 1, FALSE)
        mag  == Add(Whole(scan.beforeDecimal), Norm(scan.afterDecimal, scan.divisor))
    IN  [value |-> IF neg THEN Negate(mag) ELSE mag, end |-> scan.end]

----------------------------------------------------------------------------
(* The expressions main hands to solve.                                    *)

\* kExpressions[] as written in the source
SourceExpressions ==
    << 
       <<"-","(","(","6","+","4",")",")","*"," ","-","(","2","+","2",")"," ","-"," ","-","1">>,
       <<"6","/","5","-","4","-","4","5","+","3",".","0","8">>,
       <<"0",".","3","4","+"," ","-","3","4","/","4","5","-","2">>,
       <<"(","0",".","0","3",")","*","7","3","-","2">>,
       <<"(","2","0","-","2","3"," ","+"," ","-","5"," ","*"," ","(","1","2"," ","/"," ","(","3","4"," ","+"," ","3",")"," ","-"," ","3",")",")">>,
       <<"-","2","5"," ","+"," ","4"," ","*"," ","-","(","3","2"," ","-"," ","4","5"," ","/"," ","5"," ","-"," ","-","6",")">>,
       <<"0",".","0","0","0","3","1","0","1"," ","-"," ","3","4"," ","*"," ","(","4"," ","+"," ","5",")"," ","/"," ","2","3">>,
       <<"1"," ","+"," ","(","(","1"," ","+"," ","1",")"," ","+"," ","3",")"," ","+"," ","4"," ","*"," ","5"," ","/"," ","6"," ","-"," ","7">>,
       <<"9"," ","/"," ","8","/","7"," ","/","6","/","5","/","4"," "," ","/"," "," ","3"," ","/"," "," ","2","/","1">>,
       <<"-","("," ","-","(","-","("," ","-","(","2","+","3","*","4",")","+","2"," ",")","-","1",")","+"," ","0",")">>
    >>

\* the input alphabet, with "x" for a character none of the functions knows
Alphabet == {"0", "2", ".", "+", "-", "*", "/", "(", ")", " ", "x"}

\* the expressions of n characters of Alphabet
FreeStrings(n) == [1..n -> Alphabet]

LiteralSet == {<<"0">>, <<"2">>, <<"3">>, <<"1", ".", "5">>}

Operators == {"+", "-", "/", "*"}

\* literal (operator literal)^k
RECURSIVE Chains(_)
Chains(k) ==
    IF k = 0 THEN LiteralSet
    ELSE {c \o <<o>> \o l : c \in Chains(k - 1), o \in Operators, l \in LiteralSet}

OperatorChains == UNION {Chains(k) : k \in 0..MaxOps}

\* operands of every form tokenizeNumbers accepts, over the literals 0 and 2
SimpleOperands == {<<"0">>, <<"2">>}
Parenthesised(e) == <<"(">> \o e \o <<")">>
Negated(e) == <<"-">> \o e
Operands ==
    LET sums == {a \o <<o>> \o b : a \in SimpleOperands, o \in {"-", "*"},
                                   b \in SimpleOperands}
        pars == {Parenthesised(e) : e \in SimpleOperands \cup sums}
        base == SimpleOperands \cup pars
    IN  base \cup {Negated(e) : e \in base}

BinaryExpressions == {a \o <<o>> \o b : a \in Operands, o \in Operators, b \in Operands}

\* kExpressions[6] is left out: 0.0003101 - 306/23 needs a numerator beyond
\* the 32-bit integers TLC computes with
CheckedSourceExpressions == {SourceExpressions[k] : k \in DOMAIN SourceExpressions \ {7}}

Structured == OperatorChains \cup BinaryExpressions \cup CheckedSourceExpressions

\* e with one space inserted after its first k characters
Spaced(e, k) == SubSeq(e, 1, k) \o <<" ">> \o SubSeq(e, k + 1, Len(e))

SpacedBases == Operands \cup Chains(1)

\* e followed by e in parentheses, or by e negated in parentheses
Wrapped(e) == {<<e, Parenthesised(e)>>, <<e, Negated(Parenthesised(e))>>}

\* the arrays of expressions main may be built with: one expression, or an
\* expression followed by the same expression in parentheses, negated in
\* parentheses, or with a space inserted
Programs ==
    \/ \E n \in 0..MaxLen : \E e \in FreeStrings(n) : kExpressions = <<e>>
    \/ \E e \in Structured : kExpressions = <<e>>
    \/ \E n \in 0..MaxBase : \E e \in FreeStrings(n) : kExpressions \in Wrapped(e)
    \/ \E e \in CheckedSourceExpressions : kExpressions \in Wrapped(e)
    \/ \E e \in SpacedBases : \E k \in 0..Len(e) : kExpressions = <<e, Spaced(e, k)>>

----------------------------------------------------------------------------
(* The call stack.                                                         *)

Frame(fn, pc) ==
    [fn |-> fn, pc |-> pc, first |-> Zero, opr |-> NUL, hasNegative |-> FALSE]

Top == stack[Len(stack)]

\* the string solve was called with
expression == kExpressions[i]

\* *eq
Current == CharAt(expression, eq)

\* the top frame is function fn, about to run from its point pc
At(fn, pc) == status = "run" /\ stack # <<>> /\ Top.fn = fn /\ Top.pc = pc

\* the running function calls callee and will resume as the frame caller
Call(caller, callee) ==
    stack' = Append(Append(SubSeq(stack, 1, Len(stack) - 1), caller),
                    Frame(callee, "entry"))

\* the running function returns v
Return(v) ==
    /\ stack' = SubSeq(stack, 1, Len(stack) - 1)
    /\ ret' = v

\* a failed assert: the process aborts with the cursor where it stood
Abort(kind, p) ==
    /\ status' = "abort"
    /\ err' = kind
    /\ eq' = p
    /\ UNCHANGED <<kExpressions, i, countParenthesis, stack, ret, results>>

----------------------------------------------------------------------------
(* tokenizeNumbers.                                                        *)

\* applySign with the unary minus forgotten
applySignDropped(hasNegative, v) == v

\* if (hasNegative) return v * -1; else return v;
applySign(hasNegative, v) == IF hasNegative THEN Negate(v) ELSE v

\* closesParenthesis taking the end of the input for a ')' too
closesParenthesisOrEnd(c) == c = ")" \/ c = NUL

\* closesParenthesis with the assert compiled out
closesParenthesisUnchecked(c) == TRUE

\* the condition of assert(*eq == ')')
closesParenthesis(c) == c = ")"

\* leaveParenthesis with the decrement forgotten
leaveParenthesisForgotten(n) == n

\* countParenthesis++ and countParenthesis--
enterParenthesis(n) == n + 1
leaveParenthesis(n) == n - 1

\* the condition of assert(eptr != eq)
numberFound(start, eptr) == eptr # start

\* From the entry to the call of tokenizeExpression for a parenthesis, or to
\* the return of a number, or to the failed assert on the scanned length.
tokenizeNumbersEntry ==
    /\ At("tokenizeNumbers", "entry")
    /\ LET s           == expression
           p1          == SkipSpaces(s, eq)
           hasNegative == CharAt(s, p1) = "-"
           p2          == IF hasNegative THEN p1 + 1 ELSE p1
           number      == makeFloat(s, p2)
       IN  IF CharAt(s, p2) = "("
           THEN /\ eq' = p2 + 1
                /\ countParenthesis' = enterParenthesis(countParenthesis)
                /\ Call([Top EXCEPT !.pc = "paren", !.hasNegative = hasNegative],
                        "tokenizeExpression")
                /\ UNCHANGED <<kExpressions, i, ret, results, status, err>>
           ELSE IF ~numberFound(p2, number.end)
           THEN Abort("MalformedNumber", p2)
           ELSE /\ eq' = number.end
                /\ Return(applySign(hasNegative, number.value))
                /\ UNCHANGED <<kExpressions, i, countParenthesis, results, status, err>>

\* From the return of tokenizeExpression to the return of the parenthesis.
tokenizeNumbersParen ==
    /\ At("tokenizeNumbers", "paren")
    /\ IF ~closesParenthesis(Current)
       THEN Abort("UnbalancedParentheses", eq)
       ELSE /\ eq' = eq + 1
            /\ countParenthesis' = leaveParenthesis(countParenthesis)
            /\ Return(applySign(Top.hasNegative, ret))
            /\ UNCHANGED <<kExpressions, i, results, status, err>>

----------------------------------------------------------------------------
(* tokenizeMulDiv.                                                         *)

\* the operators the loop of tokenizeMulDiv goes on with
isMulDiv(opr) == opr = "*" \/ opr = "/"

\* the function tokenizeMulDiv takes its operands from
mulDivOperand == "tokenizeNumbers"

\* divisorAllowed with the assert compiled out
divisorUnchecked(second) == TRUE

\* the condition of assert(second != 0)
divisorAllowed(second) == second.num # 0

\* if (opr != '/') first = first * second; else first = first / second;
mulDivFold(first, opr, second) ==
    IF opr # "/" THEN Mul(first, second) ELSE Div(first, second)

tokenizeMulDivEntry ==
    /\ At("tokenizeMulDiv", "entry")
    /\ Call([Top EXCEPT !.pc = "first"], mulDivOperand)
    /\ UNCHANGED <<kExpressions, i, eq, countParenthesis, ret, results, status, err>>

\* One pass of while (true) with the accumulator first: to the return, or to
\* the call for the second operand.
tokenizeMulDivLoop(first) ==
    LET p   == SkipSpaces(expression, eq)
        opr == CharAt(expression, p)
    IN  IF ~isMulDiv(opr)
        THEN /\ eq' = p
             /\ Return(first)
        ELSE /\ eq' = p + 1
             /\ Call([Top EXCEPT !.pc = "second", !.first = first, !.opr = opr],
                     mulDivOperand)
             /\ ret' = ret

\* after float first = tokenizeNumbers(...)
tokenizeMulDivFirst ==
    /\ At("tokenizeMulDiv", "first")
    /\ tokenizeMulDivLoop(ret)
    /\ UNCHANGED <<kExpressions, i, countParenthesis, results, status, err>>

\* after float second = tokenizeNumbers(...)
tokenizeMulDivSecond ==
    /\ At("tokenizeMulDiv", "second")
    /\ IF Top.opr = "/" /\ ~divisorAllowed(ret)
       THEN Abort("DivisionByZero", eq)
       ELSE /\ tokenizeMulDivLoop(mulDivFold(Top.first, Top.opr, ret))
            /\ UNCHANGED <<kExpressions, i, countParenthesis, results, status, err>>

----------------------------------------------------------------------------
(* tokenizeExpression.                                                     *)

\* the operators the loop of tokenizeExpression goes on with
isAddSub(opr) == opr = "+" \/ opr = "-"

\* expressionOperand skipping the level of '*' and '/'
expressionOperandFlat == "tokenizeNumbers"

\* the function tokenizeExpression takes its operands from
expressionOperand == "tokenizeMulDiv"

\* expressionFold subtracting the wrong way round
expressionFoldSwapped(first, opr, second) ==
    IF opr = "+" THEN Add(first, second) ELSE Sub(second, first)

\* if (opr == '+') first = first + second; else first = first - second;
expressionFold(first, opr, second) ==
    IF opr = "+" THEN Add(first, second) ELSE Sub(first, second)

tokenizeExpressionEntry ==
    /\ At("tokenizeExpression", "entry")
    /\ Call([Top EXCEPT !.pc = "first"], expressionOperand)
    /\ UNCHANGED <<kExpressions, i, eq, countParenthesis, ret, results, status, err>>

tokenizeExpressionLoop(first) ==
    LET p   == SkipSpaces(expression, eq)
        opr == CharAt(expression, p)
    IN  IF ~isAddSub(opr)
        THEN /\ eq' = p
             /\ Return(first)
        ELSE /\ eq' = p + 1
             /\ Call([Top EXCEPT !.pc = "second", !.first = first, !.opr = opr],
                     expressionOperand)
             /\ ret' = ret

\* after double first = tokenizeMulDiv(...)
tokenizeExpressionFirst ==
    /\ At("tokenizeExpression", "first")
    /\ tokenizeExpressionLoop(ret)
    /\ UNCHANGED <<kExpressions, i, countParenthesis, results, status, err>>

\* after double second = tokenizeMulDiv(...)
tokenizeExpressionSecond ==
    /\ At("tokenizeExpression", "second")
    /\ tokenizeExpressionLoop(expressionFold(Top.first, Top.opr, ret))
    /\ UNCHANGED <<kExpressions, i, countParenthesis, results, status, err>>

----------------------------------------------------------------------------
(* solve and main.                                                         *)

\* int pCount = 0; float answer = tokenizeExpression(eq, pCount);
solveEntry ==
    /\ At("solve", "entry")
    /\ countParenthesis' = 0
    /\ Call([Top EXCEPT !.pc = "answer"], "tokenizeExpression")
    /\ UNCHANGED <<kExpressions, i, eq, ret, results, status, err>>

\* assert(pCount == 0); return answer;  results keeps the answer main prints
\* and, as history, the position the cursor of solve stopped at.
solveAnswer ==
    /\ At("solve", "answer")
    /\ IF countParenthesis # 0
       THEN Abort("UnbalancedParentheses", eq)
       ELSE /\ stack' = <<>>
            /\ results' = Append(results, [answer |-> ret, stopped |-> eq])
            /\ status' = "idle"
            /\ UNCHANGED <<kExpressions, i, eq, countParenthesis, ret, err>>

\* one turn of the for loop of main: solve(kExpressions[i])
mainLoop ==
    /\ status = "idle"
    /\ i < Len(kExpressions)
    /\ i' = i + 1
    /\ eq' = 1
    /\ stack' = <<Frame("solve", "entry")>>
    /\ status' = "run"
    /\ UNCHANGED <<kExpressions, countParenthesis, ret, results, err>>

\* return 0;
mainReturn ==
    /\ status = "idle"
    /\ i = Len(kExpressions)
    /\ status' = "exit"
    /\ UNCHANGED <<kExpressions, i, eq, countParenthesis, stack, ret, results, err>>

Init ==
    /\ Programs
    /\ i = 0
    /\ eq = 1
    /\ countParenthesis = 0
    /\ stack = <<>>
    /\ ret = Zero
    /\ results = <<>>
    /\ status = "idle"
    /\ err = ""

Next ==
    \/ mainLoop
    \/ mainReturn
    \/ solveEntry
    \/ solveAnswer
    \/ tokenizeExpressionEntry
    \/ tokenizeExpressionFirst
    \/ tokenizeExpressionSecond
    \/ tokenizeMulDivEntry
    \/ tokenizeMulDivFirst
    \/ tokenizeMulDivSecond
    \/ tokenizeNumbersEntry
    \/ tokenizeNumbersParen

Spec == Init /\ [][Next]_vars

----------------------------------------------------------------------------
(* Reference readings of an expression, used to state the properties.      *)

\* solve has returned for kExpressions[i]
Solved == status = "idle" /\ i >= 1

\* the run on kExpressions[i] is over: solve returned or an assert failed
Over == i >= 1 /\ status \in {"idle", "abort"}

Apply(opr, x, y) ==
    CASE opr = "+" -> Add(x, y)
      [] opr = "-" -> Sub(x, y)
      [] opr = "*" -> Mul(x, y)
      [] opr = "/" -> Div(x, y)

LiteralValue(l) ==
    CASE l = <<"0">> -> Whole(0)
      [] l = <<"2">> -> Whole(2)
      [] l = <<"3">> -> Whole(3)
      [] l = <<"1", ".", "5">> -> Norm(3, 2)

FirstOperator(e) ==
    IF \E k \in 1..Len(e) : e[k] \in Operators
    THEN CHOOSE k \in 1..Len(e) : e[k] \in Operators /\ \A j \in 1..(k - 1) : e[j] \notin Operators
    ELSE Len(e) + 1

\* the texts between the operator characters of e
RECURSIVE OperandsOf(_)
OperandsOf(e) ==
    LET k == FirstOperator(e)
    IN  IF k > Len(e) THEN <<e>>
        ELSE <<SubSeq(e, 1, k - 1)>> \o OperandsOf(SubSeq(e, k + 1, Len(e)))

InOperators(c) == c \in Operators
OperatorsOf(e) == SelectSeq(e, InOperators)

\* e is literal (operator literal)^k over LiteralSet
IsChain(e) == \A k \in DOMAIN OperandsOf(e) : OperandsOf(e)[k] \in LiteralSet

ChainValues(e) == [k \in DOMAIN OperandsOf(e) |-> LiteralValue(OperandsOf(e)[k])]

\* some '/' of the chain e has the literal zero as its right operand: no
\* reading gives e a value
DividesByZero(e) ==
    \E k \in DOMAIN OperatorsOf(e) :
        OperatorsOf(e)[k] = "/" /\ ChainValues(e)[k + 1] = Zero

\* the operators of e from the k-th on, read one after the other as they come
RECURSIVE LeftFold(_, _, _, _)
LeftFold(vals, ops, k, acc) ==
    IF k > Len(ops) THEN acc
    ELSE LeftFold(vals, ops, k + 1, Apply(ops[k], acc, vals[k + 1]))

\* the value of a chain by precedence: sum is the sum of the terms closed so
\* far, term the product being built, and pending the '+' or '-' before it
RECURSIVE ByPrecedence(_, _, _, _, _, _)
ByPrecedence(vals, ops, k, sum, pending, term) ==
    IF k > Len(ops) THEN Apply(pending, sum, term)
    ELSE IF ops[k] \in {"*", "/"}
    THEN ByPrecedence(vals, ops, k + 1, sum, pending, Apply(ops[k], term, vals[k + 1]))
    ELSE ByPrecedence(vals, ops, k + 1, Apply(pending, sum, term), ops[k], vals[k + 1])

ChainByPrecedence(e) ==
    ByPrecedence(ChainValues(e), OperatorsOf(e), 1, Zero, "+", ChainValues(e)[1])

ChainLeftToRight(e) ==
    LeftFold(ChainValues(e), OperatorsOf(e), 1, ChainValues(e)[1])

OneLevel(e) ==
    \/ \A k \in DOMAIN OperatorsOf(e) : OperatorsOf(e)[k] \in {"+", "-"}
    \/ \A k \in DOMAIN OperatorsOf(e) : OperatorsOf(e)[k] \in {"*", "/"}

----------------------------------------------------------------------------
(* C1. Precedence: an expression literal (operator literal)^k without      *)
(* parentheses and without a zero divisor is solved, and its answer is the *)
(* one where every '*' and '/' is applied to its operands before the '+'   *)
(* and '-' next to it: "a + b * c" gives a + (b * c), not (a + b) * c.     *)
C1_Precedence ==
    (Over /\ IsChain(expression) /\ ~DividesByZero(expression))
        => /\ Solved
           /\ results[i].answer = ChainByPrecedence(expression)

\* "a + b * c" or "a - b / c" was solved and reading it left to right would
\* have given another answer
C1_Witness ==
    /\ Solved
    /\ IsChain(expression)
    /\ Len(OperatorsOf(expression)) = 2
    /\ OperatorsOf(expression)[1] \in {"+", "-"}
    /\ OperatorsOf(expression)[2] \in {"*", "/"}
    /\ ~DividesByZero(expression)
    /\ results[i].answer # ChainLeftToRight(expression)

(* C2. Left-associativity: a chain of operators of one level, "a - b - c"  *)
(* or "a / b / c" with non-zero divisors, is folded from the left:         *)
(* (a - b) - c, (a / b) / c.  The chain 9/8/7/6/5/4/3/2/1 of kExpressions  *)
(* gives 9/40320 = 1/4480, the 0.00022321 of kAnswers.                     *)
C2_LeftAssociative ==
    /\ (Over /\ IsChain(expression) /\ OneLevel(expression) /\ ~DividesByZero(expression))
          => /\ Solved
             /\ results[i].answer = ChainLeftToRight(expression)
    /\ (Over /\ expression = SourceExpressions[9])
          => /\ Solved
             /\ results[i].answer = Norm(1, 4480)

\* "a - b - c" or "a / b / c" was solved with c # 0, so that a - (b - c) and
\* a / (b / c) would have been other answers (or none)
C2_Witness ==
    /\ Solved
    /\ IsChain(expression)
    /\ Len(OperatorsOf(expression)) = 2
    /\ OperatorsOf(expression)[1] = OperatorsOf(expression)[2]
    /\ OperatorsOf(expression)[1] \in {"-", "/"}
    /\ ChainValues(expression)[3] # Zero
    /\ ChainValues(expression)[2] # Zero
    /\ ChainValues(expression)[1] # Zero
    /\ results[i].answer = Apply(OperatorsOf(expression)[1],
                                 Apply(OperatorsOf(expression)[1],
                                       ChainValues(expression)[1],
                                       ChainValues(expression)[2]),
                                 ChainValues(expression)[3])
    /\ results[i].answer # Apply(OperatorsOf(expression)[1],
                                 ChainValues(expression)[1],
                                 Apply(OperatorsOf(expression)[1],
                                       ChainValues(expression)[2],
                                       ChainValues(expression)[3]))

----------------------------------------------------------------------------
(* Two expressions solved one after the other.                             *)

\* the run on the second expression of the array is over
SecondOver == Len(kExpressions) = 2 /\ i = 2 /\ status \in {"idle", "abort"}

\* the first expression was solved with all of its text consumed
FirstValid == Len(results) >= 1 /\ results[1].stopped = Len(kExpressions[1]) + 1

(* C3. Parenthesis transparency: when an expression E is solved to v with  *)
(* all of its text consumed, "(" E ")" is solved to v and "-(" E ")" to    *)
(* -v, whatever parentheses E itself holds.                                *)
C3_ParenthesisTransparent ==
    /\ (SecondOver /\ FirstValid /\ kExpressions[2] = Parenthesised(kExpressions[1]))
          => /\ Solved
             /\ results[2].answer = results[1].answer
    /\ (SecondOver /\ FirstValid /\ kExpressions[2] = Negated(Parenthesised(kExpressions[1])))
          => /\ Solved
             /\ results[2].answer = Negate(results[1].answer)

\* "-(" E ")" was solved to -v # v for an E that has parentheses inside
\* parentheses of its own
C3_Witness ==
    /\ SecondOver /\ Solved /\ FirstValid
    /\ kExpressions[2] = Negated(Parenthesised(kExpressions[1]))
    /\ \E k \in 1..(Len(kExpressions[1]) - 1) :
           kExpressions[1][k] = "(" /\ kExpressions[1][k + 1] = "("
    /\ results[2].answer = Negate(results[1].answer)
    /\ results[2].answer # results[1].answer

(* C4. An unmatched closing parenthesis is rejected: solve never returns a *)
(* value with its cursor stopped at a ')' that follows a chain of literals  *)
(* and operators, where no '(' is open ("1+2)" fails).                     *)
C4_UnmatchedCloseRejected ==
    \A k \in DOMAIN results :
        ~ /\ CharAt(kExpressions[k], results[k].stopped) = ")"
          /\ IsChain(SubSeq(kExpressions[k], 1, results[k].stopped - 1))

----------------------------------------------------------------------------
(* tokenizeNumbers where it takes a number.                                *)

\* the position where tokenizeNumbers, at its entry, looks for '(' or a
\* number: after the spaces and the unary '-'
FactorStart ==
    LET p == SkipSpaces(expression, eq)
    IN  IF CharAt(expression, p) = "-" THEN p + 1 ELSE p

\* the digit characters of s from position p up to, not including, q
DigitsConsumed(s, p, q) == Cardinality({k \in p..(q - 1) : isDigit(CharAt(s, k))})

\* tokenizeNumbers is about to take a number and the scanner will consume
\* no digit there
NoDigitToScan ==
    /\ At("tokenizeNumbers", "entry")
    /\ CharAt(expression, FactorStart) # "("
    /\ DigitsConsumed(expression, FactorStart,
                      makeFloat(expression, FactorStart).end) = 0

(* C5. MalformedNumber: wherever tokenizeNumbers expects a number (the     *)
(* next character is not '(') and the number scanner consumes no digit     *)
(* there - end of input, an operator, ')', an unknown character, or only a *)
(* '-' or '.' - the evaluation fails with MalformedNumber.                 *)
C5_MalformedNumber ==
    [][NoDigitToScan => (status' = "abort" /\ err' = "MalformedNumber")]_vars

(* C6. Division by zero: whenever the right operand of a '/' has come back *)
(* as zero (from a literal, a negated zero or a parenthesised expression)  *)
(* the evaluation fails there with DivisionByZero, and a failed evaluation *)
(* returns no value.                                                       *)
C6_DivisionByZero ==
    /\ [][(At("tokenizeMulDiv", "second") /\ Top.opr = "/" /\ ret = Zero)
            => (status' = "abort" /\ err' = "DivisionByZero" /\ results' = results)]_vars
    /\ [](status = "abort" => Len(results) = i - 1)

\* the evaluation failed with DivisionByZero on a divisor in parentheses
\* that holds a subtraction
C6_Witness ==
    /\ status = "abort" /\ err = "DivisionByZero"
    /\ CharAt(expression, eq - 1) = ")"
    /\ CharAt(expression, eq - 3) = "-"
    /\ Len(results) = 0

NumberChar(c) == isDigit(c) \/ c = "."

\* position k of e is not inside a numeric literal
BetweenTokens(e, k) ==
    ~(k >= 1 /\ k < Len(e) /\ NumberChar(e[k]) /\ NumberChar(e[k + 1]))

(* C7. Whitespace insensitivity: a space put before any token of an        *)
(* expression (a literal, an operator, a unary minus, the operand of a     *)
(* unary minus, a parenthesis) or after its last token leaves the outcome  *)
(* as it was: once E is solved to v, E with the space is solved to v.      *)
C7_WhitespaceInsensitive ==
    \A k \in 0..Len(kExpressions[1]) :
        (SecondOver /\ FirstValid /\ BetweenTokens(kExpressions[1], k)
           /\ kExpressions[2] = Spaced(kExpressions[1], k))
          => /\ Solved
             /\ results[2].answer = results[1].answer

(* C8. An unmatched opening parenthesis is rejected: when tokenizeNumbers  *)
(* has consumed '(' and tokenizeExpression comes back with the cursor at   *)
(* anything but ')', end of input included, the evaluation fails with      *)
(* UnbalancedParentheses and returns no value.                             *)
C8_UnmatchedOpenRejected ==
    /\ [][(At("tokenizeNumbers", "paren") /\ Current # ")")
            => (status' = "abort" /\ err' = "UnbalancedParentheses"
                  /\ results' = results)]_vars
    /\ [](status = "abort" => Len(results) = i - 1)

\* "(" ... failed with UnbalancedParentheses at the end of the input
C8_Witness ==
    /\ status = "abort" /\ err = "UnbalancedParentheses"
    /\ Current = NUL
    /\ stack # <<>> /\ Top.fn = "tokenizeNumbers" /\ Top.pc = "paren"
    /\ Len(expression) >= 4

(* C9. Cursor: within one call of solve the cursor never goes back and     *)
(* never passes the end of the input, so that a function returns with the  *)
(* cursor on the first character not consumed.                             *)
C9_Cursor ==
    /\ [](eq >= 1 /\ (i >= 1 => eq <= Len(expression) + 1))
    /\ [][i' = i => eq' >= eq]_vars

\* solve returned with the cursor at the end of an input of several tokens
C9_Witness ==
    /\ Solved
    /\ eq = Len(expression) + 1
    /\ Len(expression) >= 3
    /\ \E k \in 1..Len(expression) : expression[k] = ")"

\* the number of c in the first n characters of s
CountOf(s, n, c) == Cardinality({k \in 1..n : CharAt(s, k) = c})

\* the calls of tokenizeNumbers on the stack that wait inside a parenthesis
OpenFrames == Cardinality({k \in DOMAIN stack : stack[k].fn = "tokenizeNumbers"
                                                  /\ stack[k].pc = "paren"})

(* C10. countParenthesis is at every point the number of '(' consumed      *)
(* whose ')' is not consumed yet, so never negative, and it is zero when   *)
(* the top-level tokenizeExpression has returned.                          *)
C10_ParenDepth ==
    /\ countParenthesis >= 0
    /\ (i >= 1 /\ ~At("solve", "entry")) =>
          /\ countParenthesis = CountOf(expression, eq - 1, "(")
                                  - CountOf(expression, eq - 1, ")")
          /\ countParenthesis = OpenFrames
    /\ (At("solve", "answer") \/ Solved) => countParenthesis = 0

\* solve returned after parentheses two deep were opened and closed
C10_Witness ==
    /\ Solved
    /\ countParenthesis = 0
    /\ \E k \in 1..(eq - 2) : expression[k] = "(" /\ expression[k + 1] = "("
    /\ CountOf(expression, eq - 1, ")") >= 2

====
